---- MODULE Spec2Model ----
(***************************************************************************)
(* Blip2TinyStories (lavis/models/blip2_models/blip2_tinystories.py):      *)
(* construction (from_config / __init__) and the three entry points        *)
(* forward, generate and predict_answers, with the tensors they hand to    *)
(* the causal language model.                                              *)
(*                                                                         *)
(* A string is a sequence of characters; a tensor of shape (batch, len) is *)
(* a sequence of rows, each row a sequence.  The tokenizer is character    *)
(* level: every character has its own token id.  Python's None is the      *)
(* empty tuple and a present value v is <<v>> wherever a value may be None.*)
(*                                                                         *)
(* Execution is one synchronous call chain: pc = "ready" between calls and *)
(* pc = "lm" while an entry point is inside its call of the language model,*)
(* with `call` the tensors and arguments it handed over.  Each entry point *)
(* is two steps, up to that call and from it to the return; `returned`     *)
(* records how the last completed call ended.                              *)
(***************************************************************************)
EXTENDS Integers, Sequences, FiniteSets, TLC

VARIABLES pc, env, cfg, built, loaded, eos_token_id, pad_token_id, padding_side,
          max_txt_len, prompt, prompt_length, num_query_token,
          _apply_lemmatizer, _lemmatizer, spacy_loads, call, returned

\* pc                 "new", "assert_failed", "ready", "lm" or "exited" (exit(1), line 395)
\* env                what is installed: transformers.__version__ (line 50), spacy and
\*                    en_core_web_sm (lines 382-384), and what the tokenizer loaded at
\*                    line 75 pads with and on which side
\* cfg                the configuration given to from_config (line 400)
\* built              the keyword arguments of cls(...) (lines 416-428)
\* loaded             the pretrained components __init__ has loaded (lines 53-78)
\* eos_token_id       self.eos_token_id (line 81)
\* pad_token_id       self.tinystories_tokenizer.pad_token_id (lines 88, 141)
\* padding_side       self.tinystories_tokenizer.padding_side (lines 127, 328)
\* max_txt_len, prompt, prompt_length   lines 95-98
\* num_query_token    the number of rows of self.query_tokens (line 65)
\* _apply_lemmatizer, _lemmatizer       lines 100-101
\* spacy_loads        how many times spacy.load has returned (line 384)
\* call               the arguments of the language model call in flight
\* returned           how the last completed entry point ended
vars == <<pc, env, cfg, built, loaded, eos_token_id, pad_token_id, padding_side,
          max_txt_len, prompt, prompt_length, num_query_token,
          _apply_lemmatizer, _lemmatizer, spacy_loads, call, returned>>

(* ------------------------------ bounds --------------------------------- *)

\* longest caption / question / prompt, in characters
MaxTextLen == 2

\* largest batch (image.size(0), len(samples["text_input"]))
MaxBatch == 2

(* --------------------------- python values ----------------------------- *)

PyNone == <<>>

Some(v) == <<v>>

\* the label value the loss ignores
IGNORE == -100

(* ------------------------------ strings -------------------------------- *)

NEWLINE == "\n"

\* "{}" is the replacement field of str.format
FIELD == "{}"

Letters == {"a", "b"}

\* the letters of the captions and questions of a batch
BatchLetters == {"a"}

RECURSIVE SeqsUpTo(_, _)
SeqsUpTo(S, n) ==
    IF n = 0 THEN {<<>>}
    ELSE LET shorter == SeqsUpTo(S, n - 1)
         IN  shorter \cup {Append(s, x) : s \in {t \in shorter : Len(t) = n - 1}, x \in S}

Texts == SeqsUpTo(Letters, MaxTextLen)

Batches == {b \in SeqsUpTo(SeqsUpTo(BatchLetters, MaxTextLen), MaxBatch) : Len(b) >= 1}

(* ----------------------------- tokenizer ------------------------------- *)

\* vocabulary of the tokenizer: token -> id
convert_tokens_to_ids(c) ==
    CASE c = NEWLINE -> 7
      [] c = "a"     -> 3
      [] c = "b"     -> 5
      [] OTHER       -> 9

VocabIds == {convert_tokens_to_ids(c) : c \in Letters \cup {NEWLINE}}

\* text -> token ids, no special tokens added
encode(text) == [i \in 1..Len(text) |-> convert_tokens_to_ids(text[i])]

\* truncation left out: the ids as they are
truncate_off(ids, n) == ids

\* truncation=True, max_length=n: keep the first n tokens
truncate(ids, n) == IF Len(ids) > n THEN SubSeq(ids, 1, n) ELSE ids

RECURSIVE longest(_)
longest(rows) ==
    IF rows = <<>> THEN 0
    ELSE LET rest == longest(Tail(rows))
         IN  IF Len(Head(rows)) > rest THEN Len(Head(rows)) ELSE rest

\* one row padded to length n on the given side with the given filler
pad_left(row, n, fill) == [i \in 1..n |-> IF i <= n - Len(row) THEN fill ELSE row[i - (n - Len(row))]]

pad(row, n, side, fill) ==
    IF side = "left" THEN pad_left(row, n, fill)
    ELSE [i \in 1..n |-> IF i <= Len(row) THEN row[i] ELSE fill]

\* tokenizer(texts, padding="longest", truncation=True, max_length=n)
tokenize(texts, side, padid, n) ==
    LET rows == [b \in 1..Len(texts) |-> truncate(encode(texts[b]), n)]
        L    == longest(rows)
    IN  [input_ids      |-> [b \in 1..Len(rows) |-> pad(rows[b], L, side, padid)],
         attention_mask |-> [b \in 1..Len(rows) |->
                                pad([i \in 1..Len(rows[b]) |-> 1], L, side, 0)],
         real_len       |-> [b \in 1..Len(rows) |-> Len(rows[b])]]

(* ------------------------------ tensors -------------------------------- *)

\* the two segments in the other order
cat_swapped(x, y) == [b \in 1..Len(x) |-> y[b] \o x[b]]

\* torch.cat([x, y], dim=1)
cat(x, y) == [b \in 1..Len(x) |-> x[b] \o y[b]]

\* torch.ones(shape).fill_(v) of shape (batch, n)
full(batch, n, v) == [b \in 1..batch |-> [i \in 1..n |-> v]]

\* self.tinystories_proj(query_output.last_hidden_state): one embedding per query token
project_queries(batch, n) == [b \in 1..batch |-> [i \in 1..n |-> [src |-> "query", id |-> i]]]

\* embedding table lookup (transformer.wte / get_input_embeddings())
embed_tokens(ids) == [b \in 1..Len(ids) |-> [i \in 1..Len(ids[b]) |-> [src |-> "wte", id |-> ids[b][i]]]]

(* ------------------------- construction -------------------------------- *)

\* packaging.version comparison a >= b of two release tuples of equal length
RECURSIVE version_ge(_, _)
version_ge(a, b) ==
    IF a = <<>> THEN TRUE
    ELSE IF Head(a) # Head(b) THEN Head(a) > Head(b)
    ELSE version_ge(Tail(a), Tail(b))

\* version.parse("4.27")
REQUIRED_VERSION == <<4, 27, 0>>

\* defaults of the parameters of __init__
init_defaults ==
    [vit_model |-> "eva_clip_g", img_size |-> 224, drop_path_rate |-> 0,
     use_grad_checkpoint |-> FALSE, vit_precision |-> "fp16", freeze_vit |-> TRUE,
     num_query_token |-> 32, tinystories_model |-> "roneneldan/TinyStories-33M",
     tokenizer_model |-> "EleutherAI/gpt-neo-125M", prompt |-> <<>>,
     max_txt_len |-> 32, apply_lemmatizer |-> FALSE]

\* cfg.get(key, default)
cfg_get(c, key, default) == IF key \in DOMAIN c THEN Some(c[key]) ELSE Some(default)

\* cfg.get(key)
cfg_get_none(c, key) == IF key \in DOMAIN c THEN Some(c[key]) ELSE PyNone

\* the keyword arguments from_config hands to cls(...); a parameter it does
\* not pass takes the default of __init__
from_config_args(c) ==
    [vit_model           |-> cfg_get(c, "vit_model", "eva_clip_g"),
     img_size            |-> cfg_get_none(c, "image_size"),
     drop_path_rate      |-> cfg_get(c, "drop_path_rate", 0),
     use_grad_checkpoint |-> cfg_get(c, "use_grad_checkpoint", FALSE),
     vit_precision       |-> cfg_get(c, "vit_precision", "fp16"),
     freeze_vit          |-> cfg_get(c, "freeze_vit", TRUE),
     num_query_token     |-> cfg_get_none(c, "num_query_token"),
     tinystories_model   |-> cfg_get_none(c, "tinystories_model"),
     tokenizer_model     |-> Some(init_defaults.tokenizer_model),
     prompt              |-> cfg_get(c, "prompt", <<>>),
     max_txt_len         |-> cfg_get(c, "max_txt_len", 32),
     apply_lemmatizer    |-> cfg_get(c, "apply_lemmatizer", FALSE)]

\* the tokenizer's own end-of-text token instead of the newline
tokenizer_eos_token_id == convert_tokens_to_ids("<|endoftext|>")

\* self.tinystories_tokenizer("\n", add_special_tokens=False).input_ids[0]
newline_token_id == encode(<<NEWLINE>>)[1]

\* the state of the object before __init__ has run
unbuilt ==
    [pc |-> "new", loaded |-> {}, eos_token_id |-> 0, pad_token_id |-> 0,
     padding_side |-> "none", max_txt_len |-> 0, prompt |-> <<>>, prompt_length |-> 0,
     num_query_token |-> 0, apply_lemmatizer |-> FALSE, lemmatizer |-> PyNone]

\* the version assertion placed after the first load
init_steps_late_assert ==
    <<"tokenizer", "assert_version", "visual_encoder", "Qformer",
      "tinystories_tokenizer", "tinystories_model">>

\* the statements of __init__ that check the environment or load a
\* pretrained component, in source order
init_steps ==
    <<"assert_version", "tokenizer", "visual_encoder", "Qformer",
      "tinystories_tokenizer", "tinystories_model">>

\* runs the steps in order: the components loaded so far, and whether the
\* assertion has failed (the steps after a failed assertion do not run)
RECURSIVE run_steps(_, _, _)
run_steps(steps, e, acc) ==
    IF steps = <<>> \/ acc.failed THEN acc
    ELSE IF Head(steps) = "assert_version"
         THEN run_steps(Tail(steps), e,
                        [acc EXCEPT !.failed = ~version_ge(e.transformers_version, REQUIRED_VERSION)])
         ELSE run_steps(Tail(steps), e,
                        [acc EXCEPT !.loaded = acc.loaded \cup {Head(steps)}])

\* __init__(**args) in environment e.  pad_token is assigned the integer
\* eos id; the id the tokenizer then reports as pad_token_id is whatever its
\* vocabulary lookup of that value yields (e.pad_token_id).
init(args, e) ==
    LET ran == run_steps(init_steps, e, [loaded |-> {}, failed |-> FALSE])
    IN  IF ran.failed
        THEN [unbuilt EXCEPT !.pc = "assert_failed", !.loaded = ran.loaded]
        ELSE [pc               |-> "ready",
              loaded           |-> ran.loaded,
              eos_token_id     |-> newline_token_id,
              pad_token_id     |-> e.pad_token_id,
              padding_side     |-> e.padding_side,
              max_txt_len      |-> args.max_txt_len[1],
              prompt           |-> args.prompt[1],
              prompt_length    |-> Len(encode(args.prompt[1])),
              num_query_token  |-> args.num_query_token[1],
              apply_lemmatizer |-> args.apply_lemmatizer[1],
              lemmatizer       |-> PyNone]

\* no entry point has been called yet
no_call ==
    [op |-> "none", side |-> "none", input_ids |-> <<>>,
     text_mask |-> <<>>, real_len |-> <<>>, atts_opt |-> <<>>, inputs_embeds |-> <<>>,
     attention_mask |-> <<>>, labels |-> <<>>, eos_arg |-> PyNone,
     samples_apply_lemmatizer |-> PyNone]

\* no entry point has returned yet
no_return == [op |-> "none", outcome |-> "none", wanted_lemmatizer |-> FALSE]

\* the object's fields take the values of record r
Becomes(r) ==
    /\ pc' = r.pc
    /\ loaded' = r.loaded
    /\ eos_token_id' = r.eos_token_id
    /\ pad_token_id' = r.pad_token_id
    /\ padding_side' = r.padding_side
    /\ max_txt_len' = r.max_txt_len
    /\ prompt' = r.prompt
    /\ prompt_length' = r.prompt_length
    /\ num_query_token' = r.num_query_token
    /\ _apply_lemmatizer' = r.apply_lemmatizer
    /\ _lemmatizer' = r.lemmatizer

\* Blip2TinyStories.from_config(cfg)
from_config ==
    /\ pc = "new"
    /\ built' = from_config_args(cfg)
    /\ Becomes(init(from_config_args(cfg), env))
    /\ UNCHANGED <<env, cfg, spacy_loads, call, returned>>

(* ------------------------- configurations ------------------------------ *)

\* a configuration naming every option, with values other than the defaults
full_cfg ==
    [vit_model |-> "clip_L", image_size |-> 364, drop_path_rate |-> 1,
     use_grad_checkpoint |-> TRUE, vit_precision |-> "fp32", freeze_vit |-> FALSE,
     num_query_token |-> 2, tinystories_model |-> "roneneldan/TinyStories-1M",
     tokenizer_model |-> "roneneldan/TinyStories-1M", prompt |-> <<"b">>,
     max_txt_len |-> 2, apply_lemmatizer |-> TRUE]

\* from_config reads these without a default: a configuration has them
RequiredKeys == {"image_size", "num_query_token", "tinystories_model"}

OptionalKeys == DOMAIN full_cfg \ RequiredKeys

restrict(f, S) == [k \in S |-> f[k]]

\* configurations for construction: any subset of the optional keys absent
CtorCfgs == {restrict(full_cfg, RequiredKeys \cup S) : S \in SUBSET OptionalKeys}

Versions == {<<3, 99, 0>>, <<4, 3, 0>>, <<4, 26, 1>>, <<4, 27, 0>>, <<4, 30, 2>>, <<5, 0, 0>>}

\* configurations of the models the entry points are exercised on
RunCfgs ==
    {[full_cfg EXCEPT !.prompt = p, !.max_txt_len = m, !.apply_lemmatizer = l] :
        p \in {<<>>, <<"b">>}, m \in {2, 3}, l \in BOOLEAN}

\* spacy: "missing" (no library), "no_model" (library without en_core_web_sm), "installed"
Envs(versions, spacys, sides) ==
    [transformers_version : versions,
     spacy                : spacys,
     padding_side         : sides,
     pad_token_id         : VocabIds]

InitCtor ==
    /\ env \in Envs(Versions, {"installed"}, {"right"})
    /\ cfg \in CtorCfgs
    /\ built = PyNone
    /\ spacy_loads = 0
    /\ call = no_call
    /\ returned = no_return
    /\ pc = unbuilt.pc
    /\ loaded = unbuilt.loaded
    /\ eos_token_id = unbuilt.eos_token_id
    /\ pad_token_id = unbuilt.pad_token_id
    /\ padding_side = unbuilt.padding_side
    /\ max_txt_len = unbuilt.max_txt_len
    /\ prompt = unbuilt.prompt
    /\ prompt_length = unbuilt.prompt_length
    /\ num_query_token = unbuilt.num_query_token
    /\ _apply_lemmatizer = unbuilt.apply_lemmatizer
    /\ _lemmatizer = unbuilt.lemmatizer

NextCtor == from_config

SpecCtor == InitCtor /\ [][NextCtor]_vars

(* --------------------------- entry points ------------------------------ *)

\* tensor.masked_fill(tensor == value, fill)
masked_fill(ids, value, fill) ==
    [b \in 1..Len(ids) |-> [i \in 1..Len(ids[b]) |-> IF ids[b][i] = value THEN fill ELSE ids[b][i]]]

\* if self.prompt: targets[:, : self.prompt_length] = -100
mask_prompt(targets, p, plen) ==
    IF p = <<>> THEN targets
    ELSE [b \in 1..Len(targets) |->
            [i \in 1..Len(targets[b]) |-> IF i <= plen THEN IGNORE ELSE targets[b][i]]]

\* the text labels alone, without the labels of the query positions
forward_targets_unshifted(tokens, atts_opt, padid, p, plen) ==
    mask_prompt(masked_fill(tokens.input_ids, padid, IGNORE), p, plen)

\* the labels of forward: the text labels behind one ignored label per query token
forward_targets(tokens, atts_opt, padid, p, plen) ==
    LET targets       == mask_prompt(masked_fill(tokens.input_ids, padid, IGNORE), p, plen)
        empty_targets == full(Len(atts_opt), Len(atts_opt[1]), IGNORE)
    IN  cat(empty_targets, targets)

\* self.tinystories_tokenizer.padding_side = "right"
forward_padding_side == "right"

\* padding on the right, as in training
padding_side_right == "right"

\* self.tinystories_tokenizer.padding_side = "left"
predict_answers_padding_side == "left"

\* what every entry point hands to the language model for tokenized text
\* `tokens` and a batch of `batch` images
lm_inputs(op, side, tokens, batch) ==
    LET inputs_opt == project_queries(batch, num_query_token)
        atts_opt   == full(batch, num_query_token, 1)
    IN  [no_call EXCEPT
            !.op             = op,
            !.side           = side,
            !.input_ids      = tokens.input_ids,
            !.text_mask      = tokens.attention_mask,
            !.real_len       = tokens.real_len,
            !.atts_opt       = atts_opt,
            !.inputs_embeds  = cat(inputs_opt, embed_tokens(tokens.input_ids)),
            !.attention_mask = cat(atts_opt, tokens.attention_mask)]

\* forward(samples) with samples["text_input"] = text_input, up to the call
\* of self.tinystories_model
forward(text_input) ==
    /\ pc = "ready"
    /\ pc' = "lm"
    /\ LET side   == forward_padding_side
           text   == [b \in 1..Len(text_input) |-> Append(text_input[b], NEWLINE)]
           tokens == tokenize(text, side, pad_token_id, max_txt_len)
           lm     == lm_inputs("forward", side, tokens, Len(text_input))
       IN  /\ padding_side' = side
           /\ call' = [lm EXCEPT !.labels =
                          forward_targets(tokens, lm.atts_opt, pad_token_id, prompt, prompt_length)]
    /\ UNCHANGED <<env, cfg, built, loaded, eos_token_id, pad_token_id, max_txt_len,
                   prompt, prompt_length, num_query_token, _apply_lemmatizer,
                   _lemmatizer, spacy_loads, returned>>

\* forward from the language model's return: return {"loss": loss}
forward_return ==
    /\ pc = "lm"
    /\ call.op = "forward"
    /\ pc' = "ready"
    /\ call' = no_call
    /\ returned' = [op |-> "forward", outcome |-> "returned", wanted_lemmatizer |-> FALSE]
    /\ UNCHANGED <<env, cfg, built, loaded, eos_token_id, pad_token_id, padding_side,
                   max_txt_len, prompt, prompt_length, num_query_token,
                   _apply_lemmatizer, _lemmatizer, spacy_loads>>

\* generate(samples) for a batch of `batch` images, up to the call of
\* self.tinystories_model.generate; samples_prompt is PyNone when samples
\* has no "prompt" key
generate(batch, samples_prompt) ==
    /\ pc = "ready"
    /\ pc' = "lm"
    /\ LET p      == IF samples_prompt # PyNone THEN samples_prompt[1] ELSE prompt
           text   == [b \in 1..batch |-> p]
           tokens == tokenize(text, padding_side, pad_token_id, max_txt_len)
           lm     == lm_inputs("generate", padding_side, tokens, batch)
       IN  call' = [lm EXCEPT !.eos_arg = Some(eos_token_id)]
    /\ UNCHANGED <<env, cfg, built, loaded, eos_token_id, pad_token_id, padding_side,
                   max_txt_len, prompt, prompt_length, num_query_token,
                   _apply_lemmatizer, _lemmatizer, spacy_loads, returned>>

\* generate from the language model's return: decode, strip, return
generate_return ==
    /\ pc = "lm"
    /\ call.op = "generate"
    /\ pc' = "ready"
    /\ call' = no_call
    /\ returned' = [op |-> "generate", outcome |-> "returned", wanted_lemmatizer |-> FALSE]
    /\ UNCHANGED <<env, cfg, built, loaded, eos_token_id, pad_token_id, padding_side,
                   max_txt_len, prompt, prompt_length, num_query_token,
                   _apply_lemmatizer, _lemmatizer, spacy_loads>>

\* str.format with one positional argument: every replacement field becomes q
RECURSIVE format(_, _)
format(template, q) ==
    IF template = <<>> THEN <<>>
    ELSE IF Head(template) = FIELD THEN q \o format(Tail(template), q)
    ELSE <<Head(template)>> \o format(Tail(template), q)

\* predict_answers(samples, prompt=template), up to the call of
\* self.tinystories_model.generate: text_input is a str (is_str) or a list
\* of str; samples_flag is samples["apply_lemmatizer"], PyNone when samples
\* has no such key
predict_answers(is_str, text_input, template, samples_flag) ==
    /\ pc = "ready"
    /\ pc' = "lm"
    /\ LET list   == IF is_str THEN <<text_input>> ELSE text_input
           text   == IF template # <<>>
                     THEN [b \in 1..Len(list) |-> format(template, list[b])]
                     ELSE list
           side   == predict_answers_padding_side
           tokens == tokenize(text, side, pad_token_id, max_txt_len)
           lm     == lm_inputs("predict_answers", side, tokens, Len(list))
       IN  /\ padding_side' = side
           /\ call' = [lm EXCEPT !.eos_arg = Some(eos_token_id),
                                 !.samples_apply_lemmatizer = samples_flag]
    /\ UNCHANGED <<env, cfg, built, loaded, eos_token_id, pad_token_id, max_txt_len,
                   prompt, prompt_length, num_query_token, _apply_lemmatizer,
                   _lemmatizer, spacy_loads, returned>>

\* the property without its `is None` test: every read loads
lemmatizer_reload(st, e) ==
    IF e.spacy = "missing" THEN [st EXCEPT !.outcome = "exit"]
    ELSE IF e.spacy = "no_model" THEN [st EXCEPT !.outcome = "raised"]
    ELSE [lemmatizer |-> Some(st.loads + 1), loads |-> st.loads + 1, outcome |-> "returned"]

\* the lemmatizer property, read with the fields in st = [lemmatizer, loads]:
\* import spacy fails with ImportError when the library is missing, which is
\* caught and ends the process; spacy.load fails with OSError when the
\* library is there and en_core_web_sm is not, which is not an ImportError
lemmatizer(st, e) ==
    IF st.lemmatizer # PyNone THEN [st EXCEPT !.outcome = "returned"]
    ELSE IF e.spacy = "missing" THEN [st EXCEPT !.outcome = "exit"]
    ELSE IF e.spacy = "no_model" THEN [st EXCEPT !.outcome = "raised"]
    ELSE [lemmatizer |-> Some(st.loads + 1), loads |-> st.loads + 1, outcome |-> "returned"]

\* _lemmatize(answers): reads the lemmatizer property once per answer
RECURSIVE lemmatize(_, _, _)
lemmatize(n, st, e) ==
    IF n = 0 \/ st.outcome # "returned" THEN st
    ELSE lemmatize(n - 1, lemmatizer(st, e), e)

\* if self._apply_lemmatizer or ("apply_lemmatizer" in samples.keys() and samples["apply_lemmatizer"])
wants_lemmatizer(flag, samples_flag) == flag \/ samples_flag = Some(TRUE)

\* predict_answers from the language model's return: decode, strip, one
\* answer per batch element, lemmatize them if asked to, return
predict_answers_return ==
    /\ pc = "lm"
    /\ call.op = "predict_answers"
    /\ LET wanted == wants_lemmatizer(_apply_lemmatizer, call.samples_apply_lemmatizer)
           st0    == [lemmatizer |-> _lemmatizer, loads |-> spacy_loads, outcome |-> "returned"]
           st     == IF wanted THEN lemmatize(Len(call.input_ids), st0, env) ELSE st0
       IN  /\ _lemmatizer' = st.lemmatizer
           /\ spacy_loads' = st.loads
           /\ pc' = IF st.outcome = "exit" THEN "exited" ELSE "ready"
           /\ returned' = [op |-> "predict_answers", outcome |-> st.outcome,
                           wanted_lemmatizer |-> wanted]
    /\ call' = no_call
    /\ UNCHANGED <<env, cfg, built, loaded, eos_token_id, pad_token_id, padding_side,
                   max_txt_len, prompt, prompt_length, num_query_token, _apply_lemmatizer>>

(* --------------------------- specification ----------------------------- *)

\* prompt templates handed to predict_answers
Templates == {<<>>, <<"b", FIELD>>}

\* a constructed model: from_config(c) in an environment with a recent
\* enough transformers; the tokenizer pads on the right unless told otherwise
Init ==
    /\ env \in Envs({<<4, 30, 2>>}, {"missing", "no_model", "installed"}, {"right"})
    /\ cfg \in RunCfgs
    /\ built = from_config_args(cfg)
    /\ spacy_loads = 0
    /\ call = no_call
    /\ returned = no_return
    /\ LET r == init(from_config_args(cfg), env)
       IN  /\ pc = r.pc
           /\ loaded = r.loaded
           /\ eos_token_id = r.eos_token_id
           /\ pad_token_id = r.pad_token_id
           /\ padding_side = r.padding_side
           /\ max_txt_len = r.max_txt_len
           /\ prompt = r.prompt
           /\ prompt_length = r.prompt_length
           /\ num_query_token = r.num_query_token
           /\ _apply_lemmatizer = r.apply_lemmatizer
           /\ _lemmatizer = r.lemmatizer

Next ==
    \/ \E text_input \in Batches : forward(text_input)
    \/ forward_return
    \/ \E batch \in 1..MaxBatch, p \in {PyNone} \cup {Some(t) : t \in Texts} : generate(batch, p)
    \/ generate_return
    \/ \E template \in Templates, flag \in {PyNone, Some(FALSE), Some(TRUE)} :
          \/ \E q \in Texts : predict_answers(TRUE, q, template, flag)
          \/ \E qs \in Batches : predict_answers(FALSE, qs, template, flag)
    \/ predict_answers_return

Spec == Init /\ [][Next]_vars

(* ------------------------------ claims --------------------------------- *)

\* position i of row b of the tokenized text in flight is padding
IsPadding(b, i) ==
    IF call.side = "left"
    THEN i <= Len(call.input_ids[b]) - call.real_len[b]
    ELSE i > call.real_len[b]

Rows == 1..Len(call.input_ids)

\* C1: in forward, a text position's label is -100 if and only if the
\* position is padding or, with a non-empty prompt, one of the first
\* prompt_length positions; every other text position keeps its token id.
C1_LabelsIgnoreExactlyPaddingAndPrompt ==
    call.op = "forward" =>
        \A b \in Rows : \A i \in 1..Len(call.input_ids[b]) :
            LET label == call.labels[b][num_query_token + i]
            IN  /\ label = IGNORE <=> (IsPadding(b, i) \/ (prompt # <<>> /\ i <= prompt_length))
                /\ label # IGNORE => label = call.input_ids[b][i]

\* C2: in forward, generate and predict_answers the attention mask handed
\* to the language model is as long as the query tokens plus the padded
\* tokenized text, and that text is at most max_txt_len long.
C2_MaskLength ==
    call.op # "none" =>
        \A b \in Rows :
            /\ Len(call.attention_mask[b]) = num_query_token + Len(call.input_ids[b])
            /\ Len(call.input_ids[b]) <= max_txt_len

\* a batch with a padded row whose text fills max_txt_len
C2_Witness ==
    /\ call.op = "forward"
    /\ \E b \in Rows :
          /\ call.real_len[b] < Len(call.input_ids[b])
          /\ Len(call.attention_mask[b]) = num_query_token + max_txt_len

\* C3: the stored end-of-sequence id is the first token id of the
\* tokenizer's encoding of the newline, in every state, and it is the
\* eos_token_id generate and predict_answers hand to the language model.
C3_EosIsNewline ==
    /\ eos_token_id = encode(<<NEWLINE>>)[1]
    /\ call.op \in {"generate", "predict_answers"} => call.eos_arg = Some(eos_token_id)

\* predict_answers inside generation after an earlier call has returned
C3_Witness ==
    /\ call.op = "predict_answers"
    /\ returned.op = "generate"
    /\ call.eos_arg = Some(convert_tokens_to_ids(NEWLINE))

\* C4: the attention mask is ones over the query positions followed by the
\* tokenizer's mask of the text, which is 0 exactly at padding, in every
\* entry point.
C4_MaskIsOnesThenTextMask ==
    call.op # "none" =>
        \A b \in Rows :
            /\ \A q \in 1..num_query_token : call.attention_mask[b][q] = 1
            /\ \A i \in 1..Len(call.input_ids[b]) :
                  /\ call.attention_mask[b][num_query_token + i] = call.text_mask[b][i]
                  /\ call.text_mask[b][i] = 0 <=> IsPadding(b, i)
                  /\ call.text_mask[b][i] \in {0, 1}

\* a left-padded row in predict_answers
C4_Witness ==
    /\ call.op = "predict_answers"
    /\ \E b \in Rows :
          /\ call.real_len[b] < Len(call.input_ids[b])
          /\ call.attention_mask[b][num_query_token + 1] = 0

\* C5: when lemmatization is asked for and spacy or its language model is
\* missing, reading the lemmatizer ends in process exit, never in an
\* exception reaching the caller of predict_answers.
C5_MissingDependencyExits ==
    (returned.op = "predict_answers" /\ returned.wanted_lemmatizer /\ env.spacy # "installed")
        => (returned.outcome = "exit" /\ pc = "exited")

\* the installed transformers is older than 4.27
BelowRequired ==
    \/ env.transformers_version[1] < 4
    \/ env.transformers_version[1] = 4 /\ env.transformers_version[2] < 27

\* C6: construction fails on the version assertion exactly when the
\* installed transformers is older than 4.27, and a failed construction has
\* loaded no tokenizer, vision encoder, Q-Former or language model.
C6_VersionAssertionFirst ==
    pc # "new" =>
        /\ pc = "assert_failed" <=> BelowRequired
        /\ pc = "assert_failed" => loaded = {}
        /\ ~BelowRequired => (pc = "ready" /\ Cardinality(loaded) = Len(init_steps) - 1)

\* 4.3 is older than 4.27: the construction has failed
C6_Witness ==
    /\ pc = "assert_failed"
    /\ env.transformers_version = <<4, 3, 0>>

\* the parameter of __init__ a configuration key sets
arg_of(key) == IF key = "image_size" THEN "img_size" ELSE key

\* C7: from_config builds the model with the configured value of every
\* option, the tokenizer identifier included, and with the default of an
\* option the configuration leaves out.
C7_EveryOptionConfigured ==
    pc = "ready" =>
        \A key \in DOMAIN full_cfg :
            built[arg_of(key)] =
                Some(IF key \in DOMAIN cfg THEN cfg[key] ELSE init_defaults[arg_of(key)])

\* the in-flight predict_answers call asks for lemmatization
Qualifies ==
    /\ call.op = "predict_answers"
    /\ (_apply_lemmatizer \/ call.samples_apply_lemmatizer = Some(TRUE))

\* what holds of every step whether or not the load succeeds
LazyOnceStep ==
    /\ _lemmatizer # PyNone => (_lemmatizer' = _lemmatizer /\ spacy_loads' = spacy_loads)
    /\ (_lemmatizer = PyNone /\ _lemmatizer' # PyNone) =>
          (Qualifies /\ call'.op = "none" /\ spacy_loads = 0 /\ spacy_loads' = 1)
    /\ (_lemmatizer = PyNone /\ ~(Qualifies /\ call'.op = "none")) => _lemmatizer' = PyNone

\* C8 as stated: unset after construction, unset until the first
\* predict_answers call that asks for lemmatization, loaded once by that
\* call, never loaded again or replaced afterwards.
C8_LoadedByFirstQualifyingCall ==
    /\ _lemmatizer = PyNone
    /\ [][/\ LazyOnceStep
          /\ (Qualifies /\ call'.op = "none") => _lemmatizer' # PyNone]_vars

\* C8 amended: unset after construction, unset until the first
\* predict_answers call that asks for lemmatization; that call loads it once
\* when spacy and en_core_web_sm are installed, and otherwise leaves it unset
\* (the process exits or the load error reaches the caller); once set it is
\* never loaded again or replaced.
C8_LazyOnce ==
    /\ _lemmatizer = PyNone
    /\ [][/\ LazyOnceStep
          /\ (Qualifies /\ call'.op = "none") =>
                IF env.spacy = "installed"
                THEN _lemmatizer' # PyNone /\ returned'.outcome = "returned"
                ELSE _lemmatizer' = PyNone /\ returned'.outcome \in {"exit", "raised"}]_vars

\* a second qualifying predict_answers call in flight with the lemmatizer
\* already loaded by an earlier one
C8_Witness ==
    /\ Qualifies
    /\ Len(call.input_ids) = 2
    /\ _lemmatizer # PyNone
    /\ spacy_loads = 1
    /\ returned.op = "predict_answers"

\* C9: in forward the labels, the input embeddings and the attention mask
\* have the same length, query tokens plus text; the labels of the query
\* positions are -100; text position i sits at position query tokens + i of
\* all three.
C9_ForwardAligned ==
    call.op = "forward" =>
        \A b \in Rows :
            LET n == Len(call.input_ids[b])
            IN  /\ Len(call.labels[b]) = num_query_token + n
                /\ Len(call.inputs_embeds[b]) = num_query_token + n
                /\ Len(call.attention_mask[b]) = num_query_token + n
                /\ \A q \in 1..num_query_token :
                      /\ call.labels[b][q] = IGNORE
                      /\ call.inputs_embeds[b][q] = [src |-> "query", id |-> q]
                /\ \A i \in 1..n :
                      /\ call.inputs_embeds[b][num_query_token + i]
                            = [src |-> "wte", id |-> call.input_ids[b][i]]
                      /\ call.labels[b][num_query_token + i] \in {IGNORE, call.input_ids[b][i]}
                      /\ call.attention_mask[b][num_query_token + i] = call.text_mask[b][i]

\* a batch of two captions of different lengths, one label kept
C9_Witness ==
    /\ call.op = "forward"
    /\ Len(call.input_ids) = 2
    /\ call.real_len[1] # call.real_len[2]
    /\ \E i \in 1..Len(call.input_ids[1]) : call.labels[1][num_query_token + i] # IGNORE

\* C10: forward sets the padding side to "right" and predict_answers to
\* "left", generate tokenizes with the side it finds and leaves it, and no
\* entry point returns with a side other than the one it tokenized with.
C10_PaddingSideShared ==
    [][/\ (call.op = "none" /\ call'.op = "forward") =>
              (padding_side' = "right" /\ call'.side = "right")
       /\ (call.op = "none" /\ call'.op = "predict_answers") =>
              (padding_side' = "left" /\ call'.side = "left")
       /\ (call.op = "none" /\ call'.op = "generate") =>
              (padding_side' = padding_side /\ call'.side = padding_side)
       /\ (call.op # "none" /\ call'.op = "none") =>
              (padding_side' = padding_side /\ padding_side' = call.side)]_vars

\* generate tokenizing with the side an earlier predict_answers left
C10_Witness ==
    /\ call.op = "generate"
    /\ call.side = "left"
    /\ env.padding_side = "right"

====
